---- MODULE Spec2Model ----
(***************************************************************************)
(* Volatility-threshold option backtest: get_backtest_result               *)
(* (src/option_pricing.py) and its helpers bsm_option_price,               *)
(* get_backtest_info and prepare_data (src/utils.py).                      *)
(*                                                                         *)
(* Numbers.  The program computes with IEEE doubles (numpy / pandas).      *)
(* The model computes with exact rationals [n |-> numerator,               *)
(* d |-> denominator] in lowest terms with d >= 0, extended with the       *)
(* non-finite doubles: NaN is 0/0, +inf is 1/0 and -inf is -1/0.  Division *)
(* by zero therefore yields inf or NaN as numpy does, and is never an      *)
(* exception.                                                              *)
(***************************************************************************)
EXTENDS Integers, Sequences, FiniteSets, TLC

VARIABLES
    sigma,               \* argument: list of volatility column names
    thres,               \* argument: list of thresholds
    data,                \* argument: the option records (rows in frame order)
    commission,          \* argument: flat commission per period
    pc,                  \* position inside the running call
    i,                   \* number of variants the generator has yielded
    prepared_data,       \* rows of the frame yielded for the current variant
    dd,                  \* the current variant's raw daily returns
    pnl,                 \* the current variant's cumulative value series
    pnl_df,              \* PnlTable under construction
    result_df,           \* ResultTable under construction
    err,                 \* exception that ended the call, or "none"
    portfolio_value_ser, \* argument of the last get_backtest_info call
    info                 \* what the last get_backtest_info call produced

vars == <<sigma, thres, data, commission, pc, i, prepared_data, dd, pnl, pnl_df,
          result_df, err, portfolio_value_ser, info>>

(***************************************************************************)
(* Bounds of the model.                                                    *)
(***************************************************************************)
MaxVariants == 2      \* longest sigma list
MaxRecords == 1       \* most option records in an orchestration run
MaxAggRecords == 3    \* most option records in a single-variant run
MaxDate == 2          \* trading dates are 1 .. MaxDate
MaxObs == 3           \* longest series handed directly to get_backtest_info
MaxDay == 3           \* calendar days of such a series are 1 .. MaxDay

SeqsUpTo(S, n) == UNION {[1..k -> S] : k \in 0..n}

(***************************************************************************)
(* Double arithmetic, modelled exactly.                                    *)
(***************************************************************************)
Abs(x) == IF x < 0 THEN -x ELSE x

Sign(x) == IF x > 0 THEN 1 ELSE IF x < 0 THEN -1 ELSE 0

RECURSIVE Gcd(_, _)
Gcd(a, b) == IF b = 0 THEN a ELSE Gcd(b, a % b)

Rat(n, d) ==
    IF d = 0 THEN [n |-> Sign(n), d |-> 0]
    ELSE LET g == Gcd(Abs(n), Abs(d))
         IN  [n |-> (Sign(d) * n) \div g, d |-> Abs(d) \div g]

NaN == [n |-> 0, d |-> 0]
Zero == [n |-> 0, d |-> 1]
One == [n |-> 1, d |-> 1]
IsNaN(x) == x.d = 0 /\ x.n = 0
IsInf(x) == x.d = 0 /\ x.n # 0
IsFinite(x) == x.d # 0

Add(x, y) ==
    IF IsNaN(x) \/ IsNaN(y) THEN NaN
    ELSE IF IsInf(x) /\ IsInf(y) THEN (IF x.n = y.n THEN x ELSE NaN)
    ELSE IF IsInf(x) THEN x
    ELSE IF IsInf(y) THEN y
    ELSE LET g == Gcd(x.d, y.d)
         IN  Rat(x.n * (y.d \div g) + y.n * (x.d \div g), (x.d \div g) * y.d)

Neg(x) == [n |-> -x.n, d |-> x.d]
Sub(x, y) == Add(x, Neg(y))
Mul(x, y) ==
    IF x.d = 0 \/ y.d = 0 THEN Rat(x.n * y.n, 0)
    ELSE LET g1 == Gcd(Abs(x.n), y.d)
             g2 == Gcd(Abs(y.n), x.d)
         IN  Rat((x.n \div g1) * (y.n \div g2), (x.d \div g2) * (y.d \div g1))
\* numpy division: x / 0 is inf (NaN when x is 0 or NaN), never an exception.
Div(x, y) ==
    IF y.n = 0 /\ y.d # 0 THEN Rat(x.n, 0)
    ELSE Mul(x, [n |-> y.d * Sign(y.n), d |-> Abs(y.n)])

\* x < y and x > y on doubles: every comparison with NaN is false.
Lt(x, y) ==
    /\ ~IsNaN(x) /\ ~IsNaN(y)
    /\ IF x.d = 0 \/ y.d = 0 THEN x.n * y.d < y.n * x.d \/ (x.d = y.d /\ x.n < y.n)
       ELSE LET g == Gcd(x.d, y.d)
            IN  x.n * (y.d \div g) < y.n * (x.d \div g)
Gt(x, y) == Lt(y, x)

\* np.maximum(x, y): NaN if either is NaN.
Maximum(x, y) == IF IsNaN(x) \/ IsNaN(y) THEN NaN ELSE IF Lt(x, y) THEN y ELSE x

(***************************************************************************)
(* Series helpers.  A series is a sequence of [date, val] entries in       *)
(* positional order; a column of values is a sequence of numbers.          *)
(***************************************************************************)
Vals(ser) == [k \in 1..Len(ser) |-> ser[k].val]

RECURSIVE SortedSeq(_)
SortedSeq(S) ==
    IF S = {} THEN <<>>
    ELSE LET m == CHOOSE x \in S : \A y \in S : x <= y
         IN  <<m>> \o SortedSeq(S \ {m})

RECURSIVE SelectVals(_, _)
SelectVals(xs, keep) ==
    IF xs = <<>> THEN <<>>
    ELSE IF keep[1] THEN <<xs[1]>> \o SelectVals(Tail(xs), Tail(keep))
    ELSE SelectVals(Tail(xs), Tail(keep))

\* Series.dropna() on a column of values.
DropNa(xs) == SelectVals(xs, [k \in 1..Len(xs) |-> ~IsNaN(xs[k])])

\* Series.fillna(v): every NaN entry becomes v.
FillNa(xs, v) == [k \in 1..Len(xs) |-> IF IsNaN(xs[k]) THEN v ELSE xs[k]]

\* Variant of Shift1 that leaves the column where it is.
Shift1NoShift(xs) == xs

\* Series.shift(1): same length, first slot NaN, the last value falls off.
Shift1(xs) == [k \in 1..Len(xs) |-> IF k = 1 THEN NaN ELSE xs[k - 1]]

RECURSIVE SumSeq(_)
SumSeq(xs) == IF xs = <<>> THEN Zero ELSE Add(xs[1], SumSeq(Tail(xs)))

\* Series.cumsum() / cumprod(): NaN entries stay NaN and are skipped.
RECURSIVE CumSumFrom(_, _)
CumSumFrom(xs, acc) ==
    IF xs = <<>> THEN <<>>
    ELSE IF IsNaN(xs[1]) THEN <<NaN>> \o CumSumFrom(Tail(xs), acc)
    ELSE <<Add(acc, xs[1])>> \o CumSumFrom(Tail(xs), Add(acc, xs[1]))
CumSum(xs) == CumSumFrom(xs, Zero)

RECURSIVE CumProdFrom(_, _)
CumProdFrom(xs, acc) ==
    IF xs = <<>> THEN <<>>
    ELSE IF IsNaN(xs[1]) THEN <<NaN>> \o CumProdFrom(Tail(xs), acc)
    ELSE <<Mul(acc, xs[1])>> \o CumProdFrom(Tail(xs), Mul(acc, xs[1]))
CumProd(xs) == CumProdFrom(xs, One)

\* np.maximum.accumulate / Series.expanding().max() on a column without NaN
\* (np.maximum propagates a NaN; the columns it is applied to hold none
\* unless a value of the series is non-finite).
RECURSIVE MaxAccFrom(_, _)
MaxAccFrom(xs, acc) ==
    IF xs = <<>> THEN <<>>
    ELSE <<Maximum(acc, xs[1])>> \o MaxAccFrom(Tail(xs), Maximum(acc, xs[1]))
MaxAccumulate(xs) == IF xs = <<>> THEN <<>> ELSE <<xs[1]>> \o MaxAccFrom(Tail(xs), xs[1])

\* Python's builtin max over the values: keeps the first value unless a
\* later one compares greater, so a leading NaN is returned as it is.
RECURSIVE PyMaxFrom(_, _)
PyMaxFrom(xs, m) ==
    IF xs = <<>> THEN m
    ELSE PyMaxFrom(Tail(xs), IF Gt(xs[1], m) THEN xs[1] ELSE m)
PyMax(xs) == PyMaxFrom(Tail(xs), xs[1])

\* Series.idxmax(): position of the first maximum among the non-NaN values
\* (0 when there is none).
IdxMax(xs) ==
    LET ok == {k \in 1..Len(xs) : ~IsNaN(xs[k])}
    IN  IF ok = {} THEN 0
        ELSE CHOOSE k \in ok :
                /\ \A j \in ok : ~Gt(xs[j], xs[k])
                /\ \A j \in ok : j < k => Lt(xs[j], xs[k])

(***************************************************************************)
(* get_backtest_info (src/utils.py 34-88).                                 *)
(***************************************************************************)
\* resample('1D').last().dropna(): one entry per calendar day that holds an
\* observation, days ascending, the value being the day's last non-NaN one.
Resample(ser) ==
    LET good == {k \in 1..Len(ser) : ~IsNaN(ser[k].val)}
        days == SortedSeq({ser[k].date : k \in good})
        lastOf(d) == CHOOSE k \in good :
                        ser[k].date = d /\ \A j \in good : ser[j].date = d => j <= k
    IN  [m \in 1..Len(days) |-> [date |-> days[m], val |-> ser[lastOf(days[m])].val]]

\* Series.pct_change(): value[t] / value[t-1] - 1, the first entry NaN.
PctChange(xs) ==
    [k \in 1..Len(xs) |-> IF k = 1 THEN NaN ELSE Sub(Div(xs[k], xs[k - 1]), One)]

\* The constant line 52 adds to the filled daily returns before cumprod.
CumRetBase == Zero

\* cum_ret_ser = (pct_change().fillna(0) + 0).cumprod()        (line 52)
CumRetSer(xs) ==
    LET filled == FillNa(PctChange(xs), Zero)
    IN  CumProd([k \in 1..Len(filled) |-> Add(filled[k], CumRetBase)])

\* ret_ser = pct_change().dropna()                                (line 49)
RetSer(xs) == DropNa(PctChange(xs))

\* Line 64: Series.std() (sample deviation, ddof = 1) is NaN below two
\* values.  A finite deviation is a square root, not a rational: the model
\* holds only whether the figure is NaN.
StdIsNaN(xs) == Len(xs) < 2 \/ \E k \in 1..Len(xs) : ~IsFinite(xs[k])

\* Line 67: max((accumulate(cum) - cum) / accumulate(cum)), Python's max.
MaximumDrawdown(cum) ==
    LET top == MaxAccumulate(cum)
    IN  PyMax([k \in 1..Len(cum) |-> Div(Sub(top[k], cum[k]), top[k])])

\* Line 76: position of the first maximum of expanding().max() - cum.
DrawdownEnd(cum) ==
    LET top == MaxAccumulate(cum)
    IN  IdxMax([k \in 1..Len(cum) |-> Sub(top[k], cum[k])])

\* Line 77: position of the first maximum of cum up to the end date.
DrawdownStart(cum) == IdxMax(SubSeq(cum, 1, DrawdownEnd(cum)))

\* round(x) to the nearest integer, ties to even, for a finite x.
RoundHalfEven(x) ==
    LET fl == x.n \div x.d
        r2 == 2 * (x.n - fl * x.d)
    IN  IF r2 < x.d THEN fl
        ELSE IF r2 > x.d THEN fl + 1
        ELSE IF fl % 2 = 0 THEN fl ELSE fl + 1

\* '%.2f' % x: the text of x with two decimals, held as the number of
\* hundredths it shows, or the texts nan / inf / -inf.
Fmt2(x) ==
    IF IsNaN(x) THEN [text |-> "nan", hundredths |-> 0]
    ELSE IF IsInf(x) THEN [text |-> IF x.n > 0 THEN "inf" ELSE "-inf", hundredths |-> 0]
    ELSE [text |-> "num", hundredths |-> RoundHalfEven(Mul(x, Rat(100, 1)))]

\* '%.2f%%' % (x * 100)
FmtPct(x) == Fmt2(Mul(x, Rat(100, 1)))

NoInfo == [err |-> "none", called |-> FALSE]

\* The exceptions the code can raise, by their messages.
IlocError == "IndexError: single positional indexer is out-of-bounds"
ListIndexError == "IndexError: list index out of range"
OptionTypeError == "ValueError: Invalid option type. Must be 'call' or 'put'."

\* Variant of get_backtest_info that refuses a resampled series of fewer
\* than two observations.
get_backtest_info_guarded(ser) ==
    IF Len(Resample(ser)) < 2
    THEN [err |-> "InsufficientData", called |-> TRUE]
    ELSE [err |-> "none", called |-> TRUE, resampled |-> Resample(ser),
          ret_ser |-> RetSer(Vals(Resample(ser))),
          cum_ret_ser |-> CumRetSer(Vals(Resample(ser))),
          TotalReturn |-> Sub(CumRetSer(Vals(Resample(ser)))[Len(Resample(ser))], One),
          VolatilityIsNaN |-> StdIsNaN(RetSer(Vals(Resample(ser)))),
          MaximumDrawdown |-> MaximumDrawdown(CumRetSer(Vals(Resample(ser)))),
          result |-> [TotalReturn |-> Fmt2(NaN)]]

\* The whole call.  Annualized Return (a fractional power), Sharpe Ratio
\* and Calmar Ratio (quotients of it) are not rational and are left out of
\* the report; of Annualized Volatility only NaN-ness is held.  On an empty
\* resampled series cum_ret_ser.iloc[-1] (line 58) raises IndexError.
get_backtest_info(ser) ==
    LET pv == Resample(ser)
        xs == Vals(pv)
        ret_ser == RetSer(xs)
        cum_ret_ser == CumRetSer(xs)
    IN  IF Len(cum_ret_ser) = 0
        THEN [err |-> IlocError, called |-> TRUE]
        ELSE LET total == Sub(cum_ret_ser[Len(cum_ret_ser)], One)
                 mdd == MaximumDrawdown(cum_ret_ser)
                 endk == DrawdownEnd(cum_ret_ser)
                 startk == DrawdownStart(cum_ret_ser)
             IN  [err |-> "none", called |-> TRUE,
                  resampled |-> pv,
                  ret_ser |-> ret_ser,
                  cum_ret_ser |-> cum_ret_ser,
                  TotalReturn |-> total,
                  VolatilityIsNaN |-> StdIsNaN(ret_ser),
                  MaximumDrawdown |-> mdd,
                  result |->
                    [TotalReturn |-> FmtPct(total),
                     MaximumDrawdown |-> FmtPct(mdd),
                     MaximumDrawdownStartDate |->
                        IF startk = 0 THEN 0 ELSE pv[startk].date,
                     MaximumDrawdownEndDate |->
                        IF endk = 0 THEN 0 ELSE pv[endk].date]]

(***************************************************************************)
(* bsm_option_price (src/utils.py 7-32).                                   *)
(* The closed form uses log, exp, sqrt and the normal distribution         *)
(* function, which have no exact rational value.  The operator holds the   *)
(* function's values, rounded to four decimals, at the points the inputs   *)
(* of the model can take: S0 = 100, K = 95, T = 0.1, rf = 0.03 and sigma   *)
(* 0.2 or 0.4.  An option_type other than 0 and 1 raises ValueError.       *)
(***************************************************************************)
BsmCall(sig) == IF sig = Rat(20, 100) THEN Rat(59510, 10000) ELSE Rat(79967, 10000)
BsmPut(sig) == IF sig = Rat(20, 100) THEN Rat(6665, 10000) ELSE Rat(27121, 10000)

bsm_option_price(option_type, S0, K, T, sig, rf) ==
    IF option_type = 0 THEN [err |-> "none", price |-> BsmCall(sig)]
    ELSE IF option_type = 1 THEN [err |-> "none", price |-> BsmPut(sig)]
    ELSE [err |-> "ValueError: Invalid option type. Must be 'call' or 'put'.", price |-> NaN]

(***************************************************************************)
(* The inputs of a run.                                                    *)
(***************************************************************************)
Labels == {"a", "b"}                         \* volatility columns of vix
ThresVals == {Zero, Rat(1, 100)}             \* thresholds 0 and 1 %
CommVals == {Rat(1, 1000)}                   \* commission 0.1 %
RetVals == {NaN, Rat(2, 100)}                \* ret: missing, or 2 %
Dates == 1..MaxDate

\* The volatility-index frame: per date the underlying price and one
\* volatility figure, in percent, per column.
vix == [d \in Dates |-> [asset_price |-> 100, a |-> 20, b |-> 40]]

\* Column '1' of the rate frame that line 104 reads from data/shibor.csv,
\* in percent.  The file is not part of the repository, and what
\* .loc[date_range] selects from it depends on its layout; the model takes
\* a frame indexed by date that covers every date.
shibor == [d \in Dates |-> 3]

\* The option frame's rows.  The columns code, exercise_date and T-days are
\* never read and are left out.
Records ==
    [date : Dates, close : {Rat(6, 1)}, K : {95}, opt_type : {"call", "put"},
     T : {Rat(1, 10)}, ret : RetVals]

(***************************************************************************)
(* prepare_data (src/utils.py 90-113).                                     *)
(***************************************************************************)
\* Lines 106-108: the inner joins on the date index and the renamed columns.
Merge(rows, s) ==
    LET inBoth(r) == r.date \in DOMAIN vix /\ r.date \in DOMAIN shibor
        kept == SelectVals(rows, [k \in 1..Len(rows) |-> inBoth(rows[k])])
    IN  [k \in 1..Len(kept) |->
            [date |-> kept[k].date, close |-> kept[k].close, K |-> kept[k].K,
             opt_type |-> kept[k].opt_type, T |-> kept[k].T, ret |-> kept[k].ret,
             S0 |-> vix[kept[k].date].asset_price,
             sigma |-> Rat(vix[kept[k].date][s], 1),
             rf |-> Rat(shibor[kept[k].date], 1)]]

\* Line 109: sigma from percent to decimal.
ScaleSigma(rows) ==
    [k \in 1..Len(rows) |-> [rows[k] EXCEPT !.sigma = Div(@, Rat(100, 1))]]

\* Line 110: opt is 0 for 'call' and 1 for anything else.
AddOpt(rows) ==
    [k \in 1..Len(rows) |->
        rows[k] @@ [opt |-> IF rows[k].opt_type = "call" THEN 0 ELSE 1]]

\* Variant of DropMissingRet that keeps the rows and reads a missing ret as 0.
DropMissingRetAsZero(rows) ==
    [k \in 1..Len(rows) |->
        [rows[k] EXCEPT !.ret = IF IsNaN(@) THEN Zero ELSE @]]

\* Line 111: rows whose ret is missing are dropped.
DropMissingRet(rows) ==
    SelectVals(rows, [k \in 1..Len(rows) |-> ~IsNaN(rows[k].ret)])

\* The frame the generator yields for column s (lines 106-113).
PreparedFrame(rows, s) == DropMissingRet(AddOpt(ScaleSigma(Merge(rows, s))))

\* The k-th pair the generator yields.
prepare_data(rows, sig, k) == [frame |-> PreparedFrame(rows, sig[k]), s |-> sig[k]]

(***************************************************************************)
(* get_backtest_result (src/option_pricing.py 8-55).                       *)
(***************************************************************************)
\* Variant of ThresIndex that is one position too far.
ThresIndexOffByOne(sig, s) ==
    1 + (CHOOSE k \in 1..Len(sig) : sig[k] = s /\ \A j \in 1..(k - 1) : sig[j] # s)

\* sigma.index(s): the first position holding s (positions from 1).
ThresIndex(sig, s) ==
    CHOOSE k \in 1..Len(sig) : sig[k] = s /\ \A j \in 1..(k - 1) : sig[j] # s

\* Lines 29-33: the price column (rf is passed divided by 100).
PriceOf(r) ==
    bsm_option_price(r.opt, r.S0, r.K, r.T, r.sigma, Div(r.rf, Rat(100, 1)))

PriceRows(rows) ==
    [k \in 1..Len(rows) |-> rows[k] @@ [price |-> PriceOf(rows[k]).price]]

\* Variant of SignalOf with the two band edges exchanged.
SignalOfSwappedBands(price, close, t) ==
    IF Gt(price, Mul(Sub(One, t), close)) THEN 1
    ELSE IF Lt(price, Mul(Add(One, t), close)) THEN -1
    ELSE 0

\* Lines 38-41: the signal of one row for threshold t.
SignalOf(price, close, t) ==
    IF Gt(price, Mul(Add(One, t), close)) THEN 1
    ELSE IF Lt(price, Mul(Sub(One, t), close)) THEN -1
    ELSE 0

SignalRows(rows, t) ==
    [k \in 1..Len(rows) |->
        rows[k] @@ [signal |-> SignalOf(rows[k].price, rows[k].close, t)]]

\* Line 44: return = ret * signal.
ReturnRows(rows) ==
    [k \in 1..Len(rows) |->
        rows[k] @@ [return |-> Mul(rows[k].ret, Rat(rows[k].signal, 1))]]

\* The mean of one date's group: NaN entries are skipped, as pandas does.
GroupMean(rows, d) ==
    LET xs == DropNa(SelectVals([k \in 1..Len(rows) |-> rows[k].return],
                                [k \in 1..Len(rows) |-> rows[k].date = d]))
    IN  IF xs = <<>> THEN NaN ELSE Div(SumSeq(xs), Rat(Len(xs), 1))

\* Line 45: groupby('date')['return'].mean(), the group keys ascending.
DailyMeans(rows) ==
    LET days == SortedSeq({rows[k].date : k \in 1..Len(rows)})
    IN  [m \in 1..Len(days) |-> [date |-> days[m], val |-> GroupMean(rows, days[m])]]

\* Variant of PnlOf that puts the base value 1 in front and keeps the last
\* date's value, on a further date.
PnlOfKeepLast(daily, c) ==
    LET net == [m \in 1..Len(daily) |-> Sub(daily[m].val, c)]
        cum == CumSum(net)
    IN  IF Len(daily) = 0 THEN <<>>
        ELSE [m \in 1..(Len(daily) + 1) |->
                IF m = 1 THEN [date |-> daily[1].date, val |-> One]
                ELSE [date |-> IF m <= Len(daily) THEN daily[m].date
                               ELSE daily[Len(daily)].date + 1,
                      val |-> Add(cum[m - 1], One)]]

\* Lines 46-47: (dd - commission).cumsum() + 1, shifted by one, NaN -> 1.
PnlOf(daily, c) ==
    LET net == [m \in 1..Len(daily) |-> Sub(daily[m].val, c)]
        cum == CumSum(net)
        plus == [m \in 1..Len(cum) |-> Add(cum[m], One)]
        out == FillNa(Shift1(plus), One)
    IN  [m \in 1..Len(daily) |-> [date |-> daily[m].date, val |-> out[m]]]

\* A frame is its row index and its columns in order.
EmptyFrame == [index |-> <<>>, cols |-> <<>>]
ColNames(df) == [k \in 1..Len(df.cols) |-> df.cols[k].name]

\* The values of series ser on the row index idx (NaN where it has none).
Align(ser, idx) ==
    [m \in 1..Len(idx) |->
        IF \E k \in 1..Len(ser) : ser[k].date = idx[m]
        THEN ser[CHOOSE k \in 1..Len(ser) : ser[k].date = idx[m]].val
        ELSE NaN]

\* Line 49: pnl_df[s] = pnl.  A frame without rows takes the series' index;
\* the series is aligned on the frame's index; an existing column of that
\* name is replaced where it stands, a new one is put last.
SetColumn(df, s, ser) ==
    LET adopt == Len(df.index) = 0 /\ Len(ser) > 0
        idx == IF adopt THEN [k \in 1..Len(ser) |-> ser[k].date] ELSE df.index
        old == [k \in 1..Len(df.cols) |->
                  IF adopt
                  THEN [name |-> df.cols[k].name, vals |-> [m \in 1..Len(idx) |-> NaN]]
                  ELSE df.cols[k]]
        col == [name |-> s, vals |-> Align(ser, idx)]
    IN  [index |-> idx,
         cols |-> IF \E k \in 1..Len(old) : old[k].name = s
                  THEN [k \in 1..Len(old) |-> IF old[k].name = s THEN col ELSE old[k]]
                  ELSE Append(old, col)]

\* Lines 52-53: pd.concat([result_df, res], axis=1) puts the column last.
ConcatColumn(df, s, report) == Append(df, [name |-> s, report |-> report])

\* The variant the loop body is working on.
CurS == sigma[i]

\* Line 27, the generator has a further column: it yields the next frame.
Prepare ==
    /\ pc = "prepare"
    /\ i < Len(sigma)
    /\ i' = i + 1
    /\ prepared_data' = prepare_data(data, sigma, i + 1).frame
    /\ pc' = "price"
    /\ UNCHANGED <<sigma, thres, data, commission, dd, pnl, pnl_df, result_df, err,
                   portfolio_value_ser, info>>

\* Lines 29-33.
Price ==
    /\ pc = "price"
    /\ IF \E k \in 1..Len(prepared_data) : PriceOf(prepared_data[k]).err # "none"
       THEN /\ pc' = "raised"
            /\ err' = OptionTypeError
            /\ UNCHANGED prepared_data
       ELSE /\ pc' = "signal"
            /\ prepared_data' = PriceRows(prepared_data)
            /\ UNCHANGED err
    /\ UNCHANGED <<sigma, thres, data, commission, i, dd, pnl, pnl_df, result_df,
                   portfolio_value_ser, info>>

\* Lines 36-41.  thres[sigma.index(s)] is evaluated for every row, so a
\* missing threshold raises IndexError at the first row.
Signal ==
    /\ pc = "signal"
    /\ IF Len(prepared_data) > 0 /\ ThresIndex(sigma, CurS) > Len(thres)
       THEN /\ pc' = "raised"
            /\ err' = ListIndexError
            /\ UNCHANGED prepared_data
       ELSE /\ pc' = "aggregate"
            /\ prepared_data' =
                 IF Len(prepared_data) = 0 THEN prepared_data
                 ELSE SignalRows(prepared_data, thres[ThresIndex(sigma, CurS)])
            /\ UNCHANGED err
    /\ UNCHANGED <<sigma, thres, data, commission, i, dd, pnl, pnl_df, result_df,
                   portfolio_value_ser, info>>

\* Lines 44-49.
Aggregate ==
    /\ pc = "aggregate"
    /\ LET rows == IF Len(prepared_data) = 0 THEN prepared_data
                   ELSE ReturnRows(prepared_data)
           means == DailyMeans(rows)
           series == PnlOf(means, commission)
       IN  /\ prepared_data' = rows
           /\ dd' = means
           /\ pnl' = series
           /\ pnl_df' = SetColumn(pnl_df, CurS, series)
    /\ pc' = "metrics"
    /\ UNCHANGED <<sigma, thres, data, commission, i, result_df, err,
                   portfolio_value_ser, info>>

\* Lines 52-53.
Metrics ==
    /\ pc = "metrics"
    /\ portfolio_value_ser' = pnl
    /\ info' = get_backtest_info(pnl)
    /\ IF info'.err # "none"
       THEN /\ pc' = "raised"
            /\ err' = info'.err
            /\ UNCHANGED result_df
       ELSE /\ pc' = "prepare"
            /\ result_df' = ConcatColumn(result_df, CurS, info'.result)
            /\ UNCHANGED err
    /\ UNCHANGED <<sigma, thres, data, commission, i, prepared_data, dd, pnl, pnl_df>>

\* Line 55, the generator is exhausted: both tables are returned.
Return ==
    /\ pc = "prepare"
    /\ i = Len(sigma)
    /\ pc' = "returned"
    /\ UNCHANGED <<sigma, thres, data, commission, i, prepared_data, dd, pnl,
                   pnl_df, result_df, err, portfolio_value_ser, info>>

\* A direct call of get_backtest_info on a series.
InfoCall ==
    /\ pc = "info"
    /\ info' = get_backtest_info(portfolio_value_ser)
    /\ err' = info'.err
    /\ pc' = IF info'.err = "none" THEN "info_returned" ELSE "raised"
    /\ UNCHANGED <<sigma, thres, data, commission, i, prepared_data, dd, pnl,
                   pnl_df, result_df, portfolio_value_ser>>

\* Lines 22-25: the state on entry to the loop.
InitLocals ==
    /\ pc = "prepare"
    /\ i = 0
    /\ prepared_data = <<>>
    /\ dd = <<>>
    /\ pnl = <<>>
    /\ pnl_df = EmptyFrame
    /\ result_df = <<>>
    /\ err = "none"
    /\ portfolio_value_ser = <<>>
    /\ info = NoInfo

\* Calls of get_backtest_result over lists of up to MaxVariants columns and
\* up to MaxVariants + 1 thresholds.
Init ==
    /\ sigma \in SeqsUpTo(Labels, MaxVariants)
    /\ thres \in SeqsUpTo(ThresVals, MaxVariants + 1)
    /\ data \in SeqsUpTo(Records, MaxRecords)
    /\ commission \in CommVals
    /\ InitLocals

Next == Prepare \/ Price \/ Signal \/ Aggregate \/ Metrics \/ Return

Spec == Init /\ [][Next]_vars

\* Calls of get_backtest_result for one column and one threshold over
\* frames of up to MaxAggRecords rows.
InitAgg ==
    /\ sigma \in [1..1 -> Labels]
    /\ thres \in [1..1 -> ThresVals]
    /\ data \in SeqsUpTo(Records, MaxAggRecords)
    /\ commission \in CommVals
    /\ InitLocals

SpecAgg == InitAgg /\ [][Next]_vars

\* Direct calls of get_backtest_info.
InfoVals == {Rat(1, 1), Rat(2, 1), Rat(3, 1)}
Series == SeqsUpTo([date : 1..MaxDay, val : InfoVals], MaxObs)

InitInfo ==
    /\ sigma = <<>>
    /\ thres = <<>>
    /\ data = <<>>
    /\ commission = Zero
    /\ pc = "info"
    /\ i = 0
    /\ prepared_data = <<>>
    /\ dd = <<>>
    /\ pnl = <<>>
    /\ pnl_df = EmptyFrame
    /\ result_df = <<>>
    /\ err = "none"
    /\ portfolio_value_ser \in Series
    /\ info = NoInfo

NextInfo == InfoCall

SpecInfo == InitInfo /\ [][NextInfo]_vars

(***************************************************************************)
(* Properties of get_backtest_info, checked under SpecInfo.                *)
(***************************************************************************)
InfoReturned == pc = "info_returned"
InfoEnded == pc \in {"info_returned", "raised"}
ObsCount == Len(Resample(portfolio_value_ser))
FirstValue == Resample(portfolio_value_ser)[1].val
LastValue == Resample(portfolio_value_ser)[ObsCount].val

\* C1: on a series of at least two daily observations with positive values
\* cum_return starts at 1 and Total Return, before formatting, is
\* value[last] / value[first] - 1.
C1_TotalReturnRoundTrip ==
    (InfoReturned /\ ObsCount >= 2) =>
        /\ info.cum_ret_ser[1] = One
        /\ info.TotalReturn = Sub(Div(LastValue, FirstValue), One)

\* The resampled values rise from each day to the next.
C2_Increasing ==
    \A k \in 1..(ObsCount - 1) :
        Lt(Resample(portfolio_value_ser)[k].val, Resample(portfolio_value_ser)[k + 1].val)

\* C2: on a monotonically increasing series Maximum Drawdown, before
\* formatting, is exactly 0.
C2_MonotoneDrawdownZero ==
    (InfoReturned /\ ObsCount >= 2 /\ C2_Increasing) => info.MaximumDrawdown = Zero

\* C5 as stated: a series of fewer than two resampled observations ends in
\* an error and no report.
C5_InsufficientDataSignalled ==
    (InfoEnded /\ ObsCount < 2) => (pc = "raised" /\ err # "none")

\* C5 as amended: one resampled observation gives a report without any
\* error, its Annualized Volatility NaN for want of a daily return; only an
\* empty series ends in an error, the IndexError of cum_ret_ser.iloc[-1].
C5_OneObservationReturnsReport ==
    InfoEnded =>
        /\ ObsCount = 1 =>
              /\ pc = "info_returned"
              /\ err = "none"
              /\ info.ret_ser = <<>>
              /\ info.VolatilityIsNaN
        /\ ObsCount = 0 => (pc = "raised" /\ err = IlocError)
        /\ ObsCount >= 2 => pc = "info_returned"

C5_Witness == pc = "info_returned" /\ ObsCount = 1 /\ Len(portfolio_value_ser) = 2

(***************************************************************************)
(* Properties of get_backtest_result over lists of variants, checked       *)
(* under Spec.                                                             *)
(***************************************************************************)
\* The current variant has just been through aggregation (lines 44-49);
\* nothing after it changes the frame, dd or pnl.
Aggregated == pc = "metrics"
HasPrice(r) == "price" \in DOMAIN r

\* C3 as stated: with lists of different lengths the call fails before any
\* variant is prepared, and returns no tables.
C3_MismatchFailsFirst ==
    Len(sigma) # Len(thres) => (i = 0 /\ pc # "returned")

\* C3 as amended: the lengths are never compared.  Thresholds beyond the
\* sigma list are never read and cause no failure.  A missing threshold
\* ends the call with IndexError only when signal generation reaches a
\* variant with rows whose threshold position lies beyond the thres list:
\* by then that variant is prepared and priced and every earlier variant
\* is aggregated and stored; no tables are returned.
C3_MissingThresholdFailsLate ==
    /\ Len(thres) >= Len(sigma) => err # ListIndexError
    /\ err = ListIndexError =>
          /\ pc = "raised"
          /\ Len(thres) < Len(sigma)
          /\ i >= 1 /\ i > Len(thres)
          /\ Len(prepared_data) > 0
          /\ \A k \in 1..Len(prepared_data) : HasPrice(prepared_data[k])
          /\ Len(result_df) = i - 1

C3_Witness ==
    /\ err = ListIndexError
    /\ i = 2
    /\ Len(result_df) = 1
    /\ Len(pnl_df.cols) = 1

\* C8: the signals of the variant at position i of the sigma list are
\* generated with thres[i].
C8_ThresholdIndexAligned ==
    (pc = "aggregate" /\ i <= Len(thres)) =>
        \A k \in 1..Len(prepared_data) :
            prepared_data[k].signal =
                SignalOf(prepared_data[k].price, prepared_data[k].close, thres[i])

\* C9: after the run both tables hold exactly one column per input
\* variant, in the order of the sigma list.
C9_ColumnsFollowInput ==
    pc = "returned" =>
        /\ [k \in 1..Len(result_df) |-> result_df[k].name] = sigma
        /\ ColNames(pnl_df) = sigma

(***************************************************************************)
(* Properties of one variant's signals and returns, checked under SpecAgg. *)
(***************************************************************************)
\* The threshold of the single variant of a SpecAgg run.
TheThres == thres[1]

\* The run's single record has been priced above (1 + threshold) * close
\* and aggregated.
C4_OneRecordAbove ==
    /\ Aggregated
    /\ Len(data) = 1
    /\ Len(prepared_data) = 1
    /\ Gt(prepared_data[1].price, Mul(Add(One, TheThres), prepared_data[1].close))

\* C4 as stated: one record priced above (1 + threshold) * close with
\* realized return r gets signal +1 and daily return r, and the value
\* series is the two-element path [1, 1 + (r - commission)].
C4_SingleRecordTwoPointPath ==
    C4_OneRecordAbove =>
        /\ prepared_data[1].signal = 1
        /\ Vals(dd) = <<data[1].ret>>
        /\ Vals(pnl) = <<One, Add(One, Sub(data[1].ret, commission))>>

\* C4 as amended: the record gets signal +1 and the daily return of its
\* date is r (less commission), but the value series is the one-element
\* path [1] on that date: the shift drops the only cumulative value
\* 1 + (r - commission).
C4_SingleRecordOnePointPath ==
    C4_OneRecordAbove =>
        /\ prepared_data[1].signal = 1
        /\ prepared_data[1].return = data[1].ret
        /\ dd = <<[date |-> data[1].date, val |-> data[1].ret]>>
        /\ pnl = <<[date |-> data[1].date, val |-> One]>>

C4_Witness ==
    /\ C4_OneRecordAbove
    /\ data[1].ret = Rat(2, 100)
    /\ prepared_data[1].signal = 1

\* The distinct dates of the prepared rows, the k-th smallest of them, and
\* the mean of ret * signal over the rows of one date.
RowDates == {prepared_data[k].date : k \in 1..Len(prepared_data)}
DayAt(k) == CHOOSE d \in RowDates : Cardinality({e \in RowDates : e < d}) = k - 1
RowsOn(d) == {k \in 1..Len(prepared_data) : prepared_data[k].date = d}

RECURSIVE PositionSum(_, _)
PositionSum(k, d) ==
    IF k = 0 THEN Zero
    ELSE Add(PositionSum(k - 1, d),
             IF prepared_data[k].date = d
             THEN Mul(prepared_data[k].ret, Rat(prepared_data[k].signal, 1))
             ELSE Zero)

MeanOn(d) == Div(PositionSum(Len(prepared_data), d), Rat(Cardinality(RowsOn(d)), 1))

RECURSIVE ValueBefore(_)
ValueBefore(k) ==
    IF k = 1 THEN One
    ELSE Add(ValueBefore(k - 1), Sub(MeanOn(DayAt(k - 1)), commission))

WiderThres == {Zero, Rat(1, 200), Rat(1, 100), Rat(1, 10), One, Rat(3, 2)}
SomeCloses == {Zero, Rat(1, 2), Rat(59, 10), Rat(6, 1), Rat(8, 1)}

\* C7: for a fixed price and a close >= 0, a threshold at least as large
\* gives the same signal or 0: it never turns 0 into a position and never
\* turns one sign into the other.  The rows' own signals are compared with
\* those of every wider threshold; the price of a one-record run (every
\* price occurs in one) is also taken through every close and every pair
\* of thresholds.
C7_SignalMonotoneInThreshold ==
    pc = "aggregate" =>
        /\ \A r \in {prepared_data[k] : k \in 1..Len(prepared_data)} :
              \A t2 \in WiderThres :
                  ~Lt(t2, TheThres) =>
                      SignalOf(r.price, r.close, t2) \in {r.signal, 0}
        /\ (Len(data) = 1 /\ Len(prepared_data) = 1) =>
              \A c \in SomeCloses : \A t1, t2 \in WiderThres :
                  ~Lt(t2, t1) =>
                      SignalOf(prepared_data[1].price, c, t2)
                          \in {SignalOf(prepared_data[1].price, c, t1), 0}

C7_Witness ==
    /\ pc = "aggregate"
    /\ \E k \in 1..Len(prepared_data) :
          /\ prepared_data[k].signal = -1
          /\ SignalOf(prepared_data[k].price, prepared_data[k].close, Rat(1, 100)) = 0

\* The rows of the input frame with a ret, and those of them on date d.
WithRet == {k \in 1..Len(data) : ~IsNaN(data[k].ret)}
WithRetOn(d) == {k \in WithRet : data[k].date = d}

\* C10: a record without ret is gone before pricing and signals: no row of
\* the frame is such a record, and each date's raw daily return is the
\* mean of ret * signal over exactly the date's records that have a ret.
C10_MissingReturnExcluded ==
    /\ pc = "price" =>
          /\ Len(prepared_data) = Cardinality(WithRet)
          /\ \A k \in 1..Len(prepared_data) : ~IsNaN(prepared_data[k].ret)
    /\ Aggregated =>
          /\ {dd[m].date : m \in 1..Len(dd)} = {data[k].date : k \in WithRet}
          /\ \A m \in 1..Len(dd) :
                /\ Cardinality(RowsOn(dd[m].date)) = Cardinality(WithRetOn(dd[m].date))
                /\ dd[m].val = MeanOn(dd[m].date)

C10_Witness ==
    /\ Aggregated
    /\ Len(data) = 3
    /\ data[1].date = data[2].date /\ data[2].date = data[3].date
    /\ IsNaN(data[2].ret)
    /\ Len(prepared_data) = 2
    /\ prepared_data[1].signal = 0
    /\ dd[1].val = Rat(-1, 100)

====
